---- MODULE Spec2Model ----
(***************************************************************************)
(* Model of source/conf.py: the Sphinx configuration module of             *)
(* programming-advice.  The module is executed top to bottom (each         *)
(* top-level statement binds one name in the module namespace), after      *)
(* which the build tool may call setup(app).  setup makes two external     *)
(* calls, sphinx_utils.augment and augment.theme_switcher, either of which *)
(* may raise.  The two JavaScript expressions handed to theme_switcher are *)
(* evaluated by the generated page.                                        *)
(*                                                                         *)
(* Python values are records [t |-> type name, v |-> payload].  A str is   *)
(* a sequence of text pieces whose concatenation is the Python string;     *)
(* '+' on str is \o, and str.format replaces each "{}" piece.  Characters  *)
(* outside ASCII are written by code point (U+263C).                       *)
(***************************************************************************)
EXTENDS Integers, Sequences, FiniteSets, TLC

VARIABLES
    loadPc,     \* index into Stmts of the next top-level statement to execute
    globals,    \* the module namespace: name -> value
    setupPc,    \* position inside the running setup call: "idle", "24", "25"
    locals,     \* local namespace of the running setup call
    calls,      \* external calls made so far by the running setup call
    history,    \* finished setup calls: [app, calls, result, err]
    page        \* last evaluation of the two default expressions in a page

vars == <<loadPc, globals, setupPc, locals, calls, history, page>>

\* Number of setup(app) invocations explored.
MaxSetups == 2

\* Application handles the build tool may pass to setup.
Apps == {"app1", "app2"}
\* Objects the external sphinx_utils.augment may return.
AugmentHandles == {"augment1", "augment2"}
\* Exceptions the external API may raise.
Errors == {"ExtensionError", "TypeError"}
\* Values the site-level JavaScript variable siteThemeId may hold.
SiteThemeIds == {<<"light">>, <<"dark">>, <<"friendly">>, <<"monokai">>, <<"sepia">>}

---------------------------------------------------------------------------
(* Python values *)

Str(pieces) == [t |-> "str", v |-> pieces]
Lit(s) == Str(<<s>>)
List(elems) == [t |-> "list", v |-> elems]
Bool(b) == [t |-> "bool", v |-> b]
Dict(d) == [t |-> "dict", v |-> d]
Tuple(elems) == [t |-> "tuple", v |-> elems]
NoneValue == [t |-> "NoneType", v |-> <<>>]
Module(name) == [t |-> "module", v |-> <<name>>]
Function(name) == [t |-> "function", v |-> <<name>>]
Opaque(type, name) == [t |-> type, v |-> <<name>>]

\* name = value in a namespace
Bind(ns, name, val) ==
    [n \in (DOMAIN ns) \cup {name} |-> IF n = name THEN val ELSE ns[n]]

\* Name lookup from inside a function body: locals first, then module globals.
Lookup(name, g, loc) == IF name \in DOMAIN loc THEN loc[name] ELSE g[name]

\* str + str
StrAdd(a, b) == Str(a.v \o b.v)

\* str.format with automatically numbered "{}" fields
RECURSIVE FormatPieces(_, _)
FormatPieces(tpl, args) ==
    IF tpl = <<>> THEN <<>>
    ELSE IF Head(tpl) = "{}"
         THEN Head(args).v \o FormatPieces(Tail(tpl), Tail(args))
         ELSE <<Head(tpl)>> \o FormatPieces(Tail(tpl), args)

Format(tpl, args) == Str(FormatPieces(tpl.v, args))

---------------------------------------------------------------------------
(* Module-level statements *)

\* source_suffix = '.rst'   (the comment above it shows the list form)
SourceSuffix_list == List(<<Lit(".rst"), Lit(".md")>>)
SourceSuffix == Lit(".rst")

\* copyright = '2020, ' + author
Copyright(g) == StrAdd(Lit("2020, "), g["author"])

\* release = version
Release_literal(g) == Lit("0.1.0")
Release(g) == g["version"]

\* The top-level binding statements, in source order: line and bound name.
Stmts ==
    << [line |-> 7,   name |-> "sphinx_utils"],
       [line |-> 9,   name |-> "sys"],
       [line |-> 10,  name |-> "Path"],
       [line |-> 13,  name |-> "DEFAULT_LIGHT_SYNTAX_THEME"],
       [line |-> 14,  name |-> "DEFAULT_DARK_SYNTAX_THEME"],
       [line |-> 17,  name |-> "setup"],
       [line |-> 42,  name |-> "needs_sphinx"],
       [line |-> 47,  name |-> "extensions"],
       [line |-> 50,  name |-> "intersphinx_mapping"],
       [line |-> 53,  name |-> "templates_path"],
       [line |-> 59,  name |-> "source_suffix"],
       [line |-> 62,  name |-> "master_doc"],
       [line |-> 65,  name |-> "project"],
       [line |-> 66,  name |-> "author"],
       [line |-> 67,  name |-> "copyright"],
       [line |-> 74,  name |-> "version"],
       [line |-> 76,  name |-> "release"],
       [line |-> 83,  name |-> "language"],
       [line |-> 88,  name |-> "exclude_patterns"],
       [line |-> 94,  name |-> "todo_include_todos"],
       [line |-> 97,  name |-> "smartquotes"],
       [line |-> 101, name |-> "html_theme"],
       [line |-> 102, name |-> "html_theme_path"],
       [line |-> 103, name |-> "html_show_copyright"],
       [line |-> 104, name |-> "html_show_sphinx"],
       [line |-> 105, name |-> "html_title"],
       [line |-> 106, name |-> "html_favicon"] >>

\* Value of the right-hand side of the statement at `line`, in namespace g.
Rhs(line, g) ==
    CASE line = 7   -> Module("sphinx_utils")
      [] line = 9   -> Module("sys")
      [] line = 10  -> Opaque("type", "pathlib.Path")
      [] line = 13  -> Lit("friendly")
      [] line = 14  -> Lit("monokai")
      [] line = 17  -> Function("setup")
      [] line = 42  -> Lit("3.0.0")
      [] line = 47  -> List(<<Lit("sphinx.ext.intersphinx")>>)
      [] line = 50  -> Dict([k \in {"python"} |->
                             Tuple(<<Lit("https://docs.python.org/3"), NoneValue>>)])
      [] line = 53  -> List(<<Lit("_templates")>>)
      [] line = 59  -> SourceSuffix
      [] line = 62  -> Lit("index")
      [] line = 65  -> Lit("programming-advice")
      [] line = 66  -> Lit("Aran-Fey")
      [] line = 67  -> Copyright(g)
      [] line = 74  -> Lit("0.1")
      [] line = 76  -> Release(g)
      [] line = 83  -> Lit("en")
      [] line = 88  -> List(<<>>)
      [] line = 94  -> Bool(FALSE)
      [] line = 97  -> Bool(FALSE)
      [] line = 101 -> Lit("advice")
      [] line = 102 -> List(<<Opaque("external", "sphinx_utils.HTML_THEMES_DIR")>>)
      [] line = 103 -> Bool(FALSE)
      [] line = 104 -> Bool(FALSE)
      [] line = 105 -> Lit("Aran-Fey's (python) programming guides")
      [] line = 106 -> Lit("favicon.png")

Loaded == loadPc > Len(Stmts)

\* Execute the next top-level statement of the module.
LoadStep ==
    /\ ~Loaded
    /\ globals' = Bind(globals, Stmts[loadPc].name, Rhs(Stmts[loadPc].line, globals))
    /\ loadPc' = loadPc + 1
    /\ UNCHANGED <<setupPc, locals, calls, history, page>>

---------------------------------------------------------------------------
(* setup(app): argument expressions, evaluated in the call's namespaces *)

NoKwargs == [k \in {} |-> NoneValue]

\* sphinx_utils.augment(app, 'programming-guides')
AugmentArgs_perApp(g, loc) == <<Lookup("app", g, loc), Str(Lookup("app", g, loc).v)>>
AugmentArgs(g, loc) == <<Lookup("app", g, loc), Lit("programming-guides")>>

\* [{'id': 'light', 'icon': U+263C}, {'id': 'dark', 'icon': U+263D}]
Themes ==
    List(<< Dict([id |-> Lit("light"), icon |-> Lit("U+263C")]),
            Dict([id |-> Lit("dark"),  icon |-> Lit("U+263D")]) >>)

\* syntax_themes=[...]
SyntaxThemes_noCobalt(g, loc) ==
    List(<< Lookup("DEFAULT_LIGHT_SYNTAX_THEME", g, loc),
            Lookup("DEFAULT_DARK_SYNTAX_THEME", g, loc) >>)
SyntaxThemes(g, loc) ==
    List(<< Lookup("DEFAULT_LIGHT_SYNTAX_THEME", g, loc),
            Lookup("DEFAULT_DARK_SYNTAX_THEME", g, loc),
            Lit("sphinx_utils.pygments_styles.cobalt2.Cobalt2Style") >>)

MatchMediaDark == "window.matchMedia(\"(prefers-color-scheme: dark)\").matches"

\* default_theme='... ? "{}" : "{}"'.format(DARK, LIGHT)
DefaultThemeExpr(g, loc) ==
    Format(Str(<<MatchMediaDark, " ? ", "\"", "{}", "\"", " : ", "\"", "{}", "\"">>),
           << Lookup("DEFAULT_DARK_SYNTAX_THEME", g, loc),
              Lookup("DEFAULT_LIGHT_SYNTAX_THEME", g, loc) >>)

\* default_syntax_theme='siteThemeId === "dark" ? "{}" : "{}"'.format(DARK, LIGHT)
DefaultSyntaxThemeExpr_swapped(g, loc) ==
    Format(Str(<<"siteThemeId", " === ", "\"", "dark", "\"",
                 " ? ", "\"", "{}", "\"", " : ", "\"", "{}", "\"">>),
           << Lookup("DEFAULT_LIGHT_SYNTAX_THEME", g, loc),
              Lookup("DEFAULT_DARK_SYNTAX_THEME", g, loc) >>)
DefaultSyntaxThemeExpr(g, loc) ==
    Format(Str(<<"siteThemeId", " === ", "\"", "dark", "\"",
                 " ? ", "\"", "{}", "\"", " : ", "\"", "{}", "\"">>),
           << Lookup("DEFAULT_DARK_SYNTAX_THEME", g, loc),
              Lookup("DEFAULT_LIGHT_SYNTAX_THEME", g, loc) >>)

ThemeSwitcherArgs(g, loc) == <<Themes>>

ThemeSwitcherKwargs(g, loc) ==
    [ syntax_themes        |-> SyntaxThemes(g, loc),
      default_theme        |-> DefaultThemeExpr(g, loc),
      default_syntax_theme |-> DefaultSyntaxThemeExpr(g, loc) ]

\* augment = <value>: inside setup the name is local to the call.
AssignAugment_global(g, loc, val) == [g |-> Bind(g, "augment", val), loc |-> loc]
AssignAugment(g, loc, val) == [g |-> g, loc |-> Bind(loc, "augment", val)]

\* Control flow of setup: where execution goes after the call on `line`
\* ended with `outcome`.  Straight-line code with no try/except.
SetupFlow_repeat25(line, outcome) ==
    IF outcome = "raised" THEN "raise"
    ELSE IF line = "24" THEN "25" ELSE "25"
SetupFlow_retry(line, outcome) ==
    IF outcome = "raised" THEN line
    ELSE IF line = "24" THEN "25" ELSE "return"
SetupFlow(line, outcome) ==
    IF outcome = "raised" THEN "raise"
    ELSE IF line = "24" THEN "25" ELSE "return"

---------------------------------------------------------------------------
(* setup(app): execution *)

\* One external call: callee, receiver, arguments, and how it ended
\* (the value it returned, or the exception it raised).
Call(fn, recv, args, kwargs, outcome, ret, err) ==
    [fn |-> fn, recv |-> recv, args |-> args, kwargs |-> kwargs,
     outcome |-> outcome, ret |-> ret, err |-> err]

\* The build tool calls setup(app) once the configuration module is loaded.
SetupCall(app) ==
    /\ Loaded
    /\ setupPc = "idle"
    /\ Len(history) < MaxSetups
    /\ setupPc' = "24"
    /\ locals' = Bind(<<>>, "app", Opaque("app", app))
    /\ calls' = <<>>
    /\ UNCHANGED <<loadPc, globals, history, page>>

\* Continue at `next` with the given namespaces and call log; leaving the
\* function ("return" / "raise") discards the frame and records the call.
Advance(next, g, loc, log, err) ==
    /\ globals' = g
    /\ IF next \in {"return", "raise"}
       THEN /\ history' = Append(history,
                             [app    |-> locals["app"],
                              calls  |-> log,
                              result |-> IF next = "return" THEN "returned" ELSE "raised",
                              err    |-> err])
            /\ setupPc' = "idle"
            /\ locals' = <<>>
            /\ calls' = <<>>
       ELSE /\ setupPc' = next
            /\ locals' = loc
            /\ calls' = log
            /\ UNCHANGED history
    /\ UNCHANGED <<loadPc, page>>

\* Line 24: augment = sphinx_utils.augment(app, 'programming-guides')
Line24Returns(h) ==
    /\ setupPc = "24"
    /\ LET c == Call("augment", Lookup("sphinx_utils", globals, locals),
                     AugmentArgs(globals, locals), NoKwargs, "returned", Opaque("augment", h), "none")
           r == AssignAugment(globals, locals, Opaque("augment", h))
       IN  Advance(SetupFlow("24", "returned"), r.g, r.loc, Append(calls, c), "none")

Line24Raises(e) ==
    /\ setupPc = "24"
    /\ LET c == Call("augment", Lookup("sphinx_utils", globals, locals),
                     AugmentArgs(globals, locals), NoKwargs, "raised", NoneValue, e)
       IN  Advance(SetupFlow("24", "raised"), globals, locals, Append(calls, c), e)

\* Lines 25-37: augment.theme_switcher([...], syntax_themes=..., ...)
Line25Returns ==
    /\ setupPc = "25"
    /\ LET c == Call("theme_switcher", Lookup("augment", globals, locals),
                     ThemeSwitcherArgs(globals, locals),
                     ThemeSwitcherKwargs(globals, locals), "returned", NoneValue, "none")
       IN  Advance(SetupFlow("25", "returned"), globals, locals, Append(calls, c), "none")

Line25Raises(e) ==
    /\ setupPc = "25"
    /\ LET c == Call("theme_switcher", Lookup("augment", globals, locals),
                     ThemeSwitcherArgs(globals, locals),
                     ThemeSwitcherKwargs(globals, locals), "raised", NoneValue, e)
       IN  Advance(SetupFlow("25", "raised"), globals, locals, Append(calls, c), e)

---------------------------------------------------------------------------
(* The two JavaScript expressions, as the generated page evaluates them *)

\* Index of the first piece equal to tok at or after position i (0 if none).
RECURSIVE IndexFrom(_, _, _)
IndexFrom(e, tok, i) ==
    IF i > Len(e) THEN 0
    ELSE IF e[i] = tok THEN i ELSE IndexFrom(e, tok, i + 1)

\* A string literal "..." or the variable siteThemeId.
EvalAtom(a, env) ==
    IF Len(a) >= 2 /\ a[1] = "\"" /\ a[Len(a)] = "\""
    THEN SubSeq(a, 2, Len(a) - 1)
    ELSE env.siteThemeId

\* The condition: the media query, or a strict equality x === y.
EvalCond(c, env) ==
    IF c = <<MatchMediaDark>> THEN env.prefersDark
    ELSE LET q == IndexFrom(c, " === ", 1)
         IN  EvalAtom(SubSeq(c, 1, q - 1), env) = EvalAtom(SubSeq(c, q + 1, Len(c)), env)

\* cond ? a : b
EvalJS(e, env) ==
    LET q == IndexFrom(e, " ? ", 1)
        c == IndexFrom(e, " : ", q + 1)
    IN  IF EvalCond(SubSeq(e, 1, q - 1), env)
        THEN EvalAtom(SubSeq(e, q + 1, c - 1), env)
        ELSE EvalAtom(SubSeq(e, c + 1, Len(e)), env)

\* The theme_switcher calls made so far, finished or not.
ThemeSwitcherCalls ==
    { calls[i] : i \in { j \in DOMAIN calls : calls[j].fn = "theme_switcher" } }
    \cup UNION { { history[k].calls[i] :
                     i \in { j \in DOMAIN history[k].calls :
                               history[k].calls[j].fn = "theme_switcher" } } :
                 k \in DOMAIN history }

\* A page built from a registered switcher evaluates both default expressions.
EvalDefaults(dark, sid) ==
    /\ \E c \in ThemeSwitcherCalls :
         /\ c.outcome = "returned"
         /\ LET env == [prefersDark |-> dark, siteThemeId |-> sid]
            IN  page' = << [ themes      |-> c.args[1],
                             syntax_themes |-> c.kwargs.syntax_themes,
                             prefersDark |-> dark,
                             siteThemeId |-> sid,
                             theme       |-> EvalJS(c.kwargs.default_theme.v, env),
                             syntaxTheme |-> EvalJS(c.kwargs.default_syntax_theme.v, env) ] >>
    /\ UNCHANGED <<loadPc, globals, setupPc, locals, calls, history>>

---------------------------------------------------------------------------

Init ==
    /\ loadPc = 1
    /\ globals = <<>>
    /\ setupPc = "idle"
    /\ locals = <<>>
    /\ calls = <<>>
    /\ history = <<>>
    /\ page = <<>>

Next ==
    \/ LoadStep
    \/ \E app \in Apps : SetupCall(app)
    \/ \E h \in AugmentHandles : Line24Returns(h)
    \/ \E e \in Errors : Line24Raises(e)
    \/ Line25Returns
    \/ \E e \in Errors : Line25Raises(e)
    \/ \E dark \in BOOLEAN, sid \in SiteThemeIds : EvalDefaults(dark, sid)

Spec == Init /\ [][Next]_vars

---------------------------------------------------------------------------
(* Properties *)

\* Two executions of setup ran to completion without an exception.
TwoReturned ==
    /\ Len(history) >= 2
    /\ history[1].result = "returned"
    /\ history[2].result = "returned"

\* C1: every theme_switcher call receives the same static configuration:
\* exactly two theme descriptors with ids 'light' then 'dark', each with an
\* icon; exactly the three syntax themes friendly, monokai, Cobalt2Style; and
\* exactly the two str keyword arguments default_theme and
\* default_syntax_theme; the arguments are the same whatever app was passed.
C1_StaticConfiguration ==
    \A c \in ThemeSwitcherCalls :
        /\ Len(c.args) = 1
        /\ c.args[1].t = "list"
        /\ Len(c.args[1].v) = 2
        /\ c.args[1].v[1].v.id = Lit("light")
        /\ c.args[1].v[2].v.id = Lit("dark")
        /\ \A i \in 1..2 : "icon" \in DOMAIN c.args[1].v[i].v
        /\ DOMAIN c.kwargs = {"syntax_themes", "default_theme", "default_syntax_theme"}
        /\ c.kwargs.syntax_themes =
               List(<< Lit("friendly"), Lit("monokai"),
                       Lit("sphinx_utils.pygments_styles.cobalt2.Cobalt2Style") >>)
        /\ c.kwargs.default_theme.t = "str"
        /\ c.kwargs.default_syntax_theme.t = "str"
        /\ \A d \in ThemeSwitcherCalls : d.args = c.args /\ d.kwargs = c.kwargs

\* C1 witness: theme_switcher was called for two different app handles.
C1_Witness ==
    /\ TwoReturned
    /\ history[1].app # history[2].app

\* C2: a setup execution in which nothing raises makes exactly one
\* augment(app, 'programming-guides') call and then exactly one theme_switcher
\* call on the object augment returned, and ends; while it runs, no call has
\* been made before line 24 and only the augment call before line 25.
C2_OneAugmentThenOneThemeSwitcher ==
    /\ \A k \in DOMAIN history :
          history[k].result = "returned" =>
              LET cs == history[k].calls
              IN  /\ Len(cs) = 2
                  /\ cs[1].fn = "augment"
                  /\ cs[1].args = <<history[k].app, Lit("programming-guides")>>
                  /\ cs[2].fn = "theme_switcher"
                  /\ cs[2].recv = cs[1].ret
    /\ setupPc \in {"idle", "24", "25"}
    /\ setupPc \in {"idle", "24"} => calls = <<>>
    /\ setupPc = "25" => Len(calls) = 1 /\ calls[1].fn = "augment"

\* C2 witness: a setup execution returned normally.
C2_Witness == \E k \in DOMAIN history : history[k].result = "returned"

\* C3: setup handles no error: an exception raised by augment or by
\* theme_switcher ends the execution at once with that same exception; after
\* a raising augment no theme_switcher call is made; no call is retried and no
\* exception is swallowed.
C3_ErrorsPropagate ==
    /\ \A i \in DOMAIN calls : calls[i].outcome = "returned"
    /\ \A k \in DOMAIN history :
          LET cs == history[k].calls
              n  == Len(cs)
          IN  /\ n \in 1..2
              /\ cs[1].fn = "augment"
              /\ n = 2 => cs[2].fn = "theme_switcher"
              /\ \A i \in 1..(n - 1) : cs[i].outcome = "returned"
              /\ cs[n].outcome = "raised" <=> history[k].result = "raised"
              /\ history[k].result = "raised" => history[k].err = cs[n].err
              /\ cs[1].outcome = "raised" => n = 1

\* C3 witness: one execution ended by augment raising, another by
\* theme_switcher raising.
C3_Witness ==
    \E j, k \in DOMAIN history :
        /\ history[j].result = "raised" /\ Len(history[j].calls) = 1
        /\ history[k].result = "raised" /\ Len(history[k].calls) = 2

\* C4: once the configuration module is loaded, no step changes the module
\* namespace: every configuration variable and both DEFAULT_*_SYNTAX_THEME
\* constants keep their values through any setup call.
C4_GlobalsNeverMutated == [][Loaded => globals' = globals]_vars

\* C4 witness: after load, one setup call has returned and one has raised.
C4_Witness ==
    /\ Loaded
    /\ \E j, k \in DOMAIN history :
          history[j].result = "returned" /\ history[k].result = "raised"

\* C5: evaluated with the system preferring dark, default_theme yields the id
\* of the dark theme descriptor ('dark'), otherwise that of the light one
\* ('light'); either way the result is the id of a registered descriptor.
C5_DefaultThemeIsRegisteredId ==
    page # <<>> =>
        LET p == page[1]
        IN  /\ p.theme = (IF p.prefersDark THEN p.themes.v[2].v.id.v
                                           ELSE p.themes.v[1].v.id.v)
            /\ p.theme = (IF p.prefersDark THEN <<"dark">> ELSE <<"light">>)
            /\ p.theme \in { p.themes.v[i].v.id.v : i \in DOMAIN p.themes.v }

\* C6: default_syntax_theme yields 'monokai' when siteThemeId is "dark" and
\* 'friendly' for every other value; the result is always a member of the
\* syntax_themes list of the same call and never the Cobalt2Style palette.
C6_DefaultSyntaxTheme ==
    page # <<>> =>
        LET p == page[1]
        IN  /\ p.syntaxTheme = (IF p.siteThemeId = <<"dark">> THEN <<"monokai">>
                                                              ELSE <<"friendly">>)
            /\ p.syntaxTheme \in { p.syntax_themes.v[i].v : i \in DOMAIN p.syntax_themes.v }
            /\ p.syntaxTheme # <<"sphinx_utils.pygments_styles.cobalt2.Cobalt2Style">>

\* C6 witness: a page evaluated the expression with siteThemeId "dark".
C6_Witness ==
    /\ page # <<>>
    /\ page[1].siteThemeId = <<"dark">>
    /\ page[1].syntaxTheme = <<"monokai">>

HasType(name, type) == name \in DOMAIN globals /\ globals[name].t = type

\* C7: after load every required configuration key is bound to a value of
\* the expected primitive type, and source_suffix is the string '.rst'.
C7_ConfigTypes ==
    Loaded =>
        /\ globals["source_suffix"] = Lit(".rst")
        /\ \A n \in {"source_suffix", "html_theme", "master_doc", "project", "author",
                     "version", "release", "language", "needs_sphinx"} :
               HasType(n, "str")
        /\ \A n \in {"extensions", "templates_path", "exclude_patterns",
                     "html_theme_path"} :
               HasType(n, "list")
        /\ \A n \in {"todo_include_todos", "smartquotes", "html_show_copyright",
                     "html_show_sphinx"} :
               HasType(n, "bool")

\* C7 witness: the module has been loaded and setup has since been called.
C7_Witness == Loaded /\ "html_favicon" \in DOMAIN globals /\ Len(history) > 0

\* C8: after load, release equals version and copyright is '2020, '
\* followed by author.
C8_DerivedValues ==
    Loaded =>
        /\ globals["release"] = globals["version"]
        /\ globals["copyright"].t = "str"
        /\ globals["copyright"].v = <<"2020, ">> \o globals["author"].v

\* C8 witness: load is complete, with release and copyright bound after
\* version and author.
C8_Witness ==
    /\ Loaded
    /\ globals["version"] = Lit("0.1")
    /\ globals["author"] = Lit("Aran-Fey")
    /\ setupPc = "25"

\* What an external call was given, leaving out the app handle and the
\* objects the external API returned.
Given(c) ==
    IF c.fn = "augment" THEN <<c.fn, c.args[2]>> ELSE <<c.fn, c.args, c.kwargs>>

\* C9: any two executions of setup, for the same or different app handles,
\* pass the same augment name and the same theme_switcher arguments: call for
\* call, a later execution is given what the earlier one was given.
C9_NoStateBetweenInvocations ==
    \A j, k \in DOMAIN history :
        \A i \in (DOMAIN history[j].calls) \cap (DOMAIN history[k].calls) :
            Given(history[j].calls[i]) = Given(history[k].calls[i])

\* C9 witness: setup ran twice to completion with the same app handle.
C9_Witness ==
    /\ TwoReturned
    /\ history[1].app = history[2].app

====
